---- MODULE Spec2Model ----
(***************************************************************************)
(* A model of win_canonicalize (src/src/lib.rs): the four regex rewrite    *)
(* rules, the canonicalize pipeline, the mutex-guarded one-time platform   *)
(* initialization, and move_file.                                          *)
(*                                                                         *)
(* A string is a sequence of one-character strings.  The regex crate's     *)
(* matching and replacement are modelled by what they do on such           *)
(* sequences: `.` matches every character but the line feed, `^` and `$`   *)
(* anchor at the two ends of the text, replace_all rewrites the leftmost   *)
(* non-overlapping matches, and a replacement string is a template in      *)
(* which `$name` stands for a capture group and `$$` for one dollar.       *)
(***************************************************************************)
EXTENDS Integers, Sequences, FiniteSets, TLC

\* Longest input string of the rewrite-rule specification.
MaxLen == 4

\* Number of threads calling canonicalize and move_file.
NumThreads == 2

\* The counters of CoInitialize calls saturate here.
MaxCount == 2

LF == "\n"

\* The characters input strings are drawn from: both slashes, the tilde,
\* the caret, a letter in both cases, and the line feed (the one character
\* that `.` excludes).
Chars == {"/", "\\", "~", "^", "f", "F", LF}

Str(n) == UNION {[1..k -> Chars] : k \in 0..n}

DropFirst(s, n) == SubSeq(s, n + 1, Len(s))

\* Result<Cow<str>, Box<dyn Error>>, as <<tag, value, error>>
Ok(s) == <<"Ok", s, "none">>

Err(e) == <<"Err", <<>>, e>>

IsOk(r) == r[1] = "Ok"

IsErr(r) == r[1] = "Err"

Val(r) == r[2]

(***************************************************************************)
(* The regex crate.                                                        *)
(***************************************************************************)

\* `.` : any character except the line feed.
Dot(c) == c # LF

\* [a-zA-Z]
IsAsciiLetter(c) == c \in {"f", "F"}

\* [\u{005C}\u{002F}]
IsSlash(c) == c \in {"\\", "/"}

\* A capture-group name in a replacement template: [0-9A-Za-z_]
IsNameChar(c) == c \in {"0", "1", "2", "f", "F", "_"}

IsDigit(c) == c \in {"0", "1", "2"}

DigitVal(c) == CASE c = "0" -> 0 [] c = "1" -> 1 [] c = "2" -> 2 [] OTHER -> 0

RECURSIVE NameLen(_)
NameLen(s) ==
    IF s # <<>> /\ IsNameChar(Head(s)) THEN 1 + NameLen(Tail(s)) ELSE 0

RECURSIVE ParseNum(_, _)
ParseNum(s, acc) ==
    IF s = <<>> THEN acc ELSE ParseNum(Tail(s), 10 * acc + DigitVal(Head(s)))

\* The text a capture reference stands for; caps[k + 1] is group k.  A
\* name that is no number names no group of these regexes, and a group
\* that does not exist stands for the empty string.
CapRef(name, caps) ==
    IF \A i \in 1..Len(name) : IsDigit(name[i])
    THEN LET k == ParseNum(name, 0) IN
         IF k + 1 <= Len(caps) THEN caps[k + 1] ELSE <<>>
    ELSE <<>>

\* A replacement template expanded against a match's capture groups.
RECURSIVE Expand(_, _)
Expand(rep, caps) ==
    IF rep = <<>> THEN <<>>
    ELSE IF Head(rep) # "$" THEN <<Head(rep)>> \o Expand(Tail(rep), caps)
    ELSE IF Len(rep) >= 2 /\ rep[2] = "$"
         THEN <<"$">> \o Expand(DropFirst(rep, 2), caps)
    ELSE LET n == NameLen(Tail(rep)) IN
         IF n = 0 THEN <<"$">> \o Expand(Tail(rep), caps)
         ELSE CapRef(SubSeq(rep, 2, n + 1), caps)
                  \o Expand(DropFirst(rep, n + 1), caps)

\* Mutant: the drive letter is copied as given.
to_uppercase_skipped(c) == c

\* to_uppercase on a drive letter
to_uppercase(c) == IF c = "f" THEN "F" ELSE c

(***************************************************************************)
(* The rewrite rules.                                                      *)
(***************************************************************************)

\* WIN_ESCAPED_CHAR = \u{005E}(.)
WIN_ESCAPED_CHAR_match_at(s) == Len(s) >= 2 /\ s[1] = "^" /\ Dot(s[2])

WIN_ESCAPED_CHAR_is_match(s) ==
    \E i \in 1..Len(s) : WIN_ESCAPED_CHAR_match_at(DropFirst(s, i - 1))

RECURSIVE WIN_ESCAPED_CHAR_replace_all(_, _)
WIN_ESCAPED_CHAR_replace_all(s, rep) ==
    IF s = <<>> THEN <<>>
    ELSE IF WIN_ESCAPED_CHAR_match_at(s)
         THEN Expand(rep, <<SubSeq(s, 1, 2), <<s[2]>>>>)
                  \o WIN_ESCAPED_CHAR_replace_all(DropFirst(s, 2), rep)
         ELSE <<Head(s)>> \o WIN_ESCAPED_CHAR_replace_all(Tail(s), rep)

\* Mutant: replace in place of replace_all, only the first match is rewritten.
win_escape_char_first_only(arg) ==
    IF WIN_ESCAPED_CHAR_is_match(arg)
    THEN LET i == CHOOSE k \in 1..Len(arg) :
                      /\ WIN_ESCAPED_CHAR_match_at(DropFirst(arg, k - 1))
                      /\ \A j \in 1..(k - 1) :
                             ~WIN_ESCAPED_CHAR_match_at(DropFirst(arg, j - 1))
         IN  Ok(SubSeq(arg, 1, i - 1) \o DropFirst(arg, i))
    ELSE Ok(arg)

win_escape_char(arg) ==
    IF WIN_ESCAPED_CHAR_is_match(arg)
    THEN Ok(WIN_ESCAPED_CHAR_replace_all(arg, <<"$", "1">>))
    ELSE Ok(arg)

\* ROOTED_MING_W64_COMPAT = ^/([a-zA-Z])/(.*)$
ROOTED_MING_W64_COMPAT_is_match(s) ==
    /\ Len(s) >= 3
    /\ s[1] = "/"
    /\ IsAsciiLetter(s[2])
    /\ s[3] = "/"
    /\ \A i \in 4..Len(s) : Dot(s[i])

\* The capture groups of the one match: the whole text, the letter, the rest.
ROOTED_MING_W64_COMPAT_captures(s) == <<s, <<s[2]>>, DropFirst(s, 3)>>

fix_root(arg) ==
    IF ~ROOTED_MING_W64_COMPAT_is_match(arg) THEN Ok(arg)
    ELSE LET caps == ROOTED_MING_W64_COMPAT_captures(arg)
             drive_letter == <<to_uppercase(caps[2][1])>>
             rest == caps[3]
         IN  Ok(drive_letter \o <<":", "\\">> \o rest)

\* ROOTED_TILDE_COMPAT = ^(~)(.*)$
ROOTED_TILDE_COMPAT_is_match(s) ==
    /\ Len(s) >= 1
    /\ s[1] = "~"
    /\ \A i \in 2..Len(s) : Dot(s[i])

\* The anchored regex matches the whole text once: the one match is replaced
\* by the expanded template.
ROOTED_TILDE_COMPAT_replace_all(s, rep) ==
    IF ROOTED_TILDE_COMPAT_is_match(s)
    THEN Expand(rep, <<s, <<"~">>, Tail(s)>>)
    ELSE s

\* The HOME variable of the process environment: not set, set to a value
\* that is no valid Unicode, or set to a string.
NotPresent == <<"unset", <<>>>>

NotUnicode == <<"not_unicode", <<>>>>

Home(s) == <<"set", s>>

\* std::env::var("HOME")
env_var(e) ==
    IF e[1] = "unset" THEN Err("NotPresent")
    ELSE IF e[1] = "not_unicode" THEN Err("NotUnicode")
    ELSE Ok(e[2])

\* Mutant: a missing HOME is not an error, the input is passed through.
fix_tilde_home_optional(arg, e) ==
    IF ROOTED_TILDE_COMPAT_is_match(arg)
    THEN LET home == env_var(e) IN
         IF IsErr(home) THEN Ok(arg)
         ELSE Ok(ROOTED_TILDE_COMPAT_replace_all(arg, Val(home) \o <<"$", "2">>))
    ELSE Ok(arg)

fix_tilde(arg, e) ==
    IF ROOTED_TILDE_COMPAT_is_match(arg)
    THEN LET home == env_var(e) IN
         IF IsErr(home) THEN home
         ELSE Ok(ROOTED_TILDE_COMPAT_replace_all(arg, Val(home) \o <<"$", "2">>))
    ELSE Ok(arg)

\* NORMALIZE_SLASH = ([\u{005C}\u{002F}]{1,})
NORMALIZE_SLASH_is_match(s) == \E i \in 1..Len(s) : IsSlash(s[i])

\* Mutant: the regex without its {1,}, each slash is a match of its own.
NORMALIZE_SLASH_match_one(s) == IF s # <<>> /\ IsSlash(Head(s)) THEN 1 ELSE 0

\* The length of the greedy match at the head of s (0: no match there).
RECURSIVE NORMALIZE_SLASH_match_len(_)
NORMALIZE_SLASH_match_len(s) ==
    IF s # <<>> /\ IsSlash(Head(s))
    THEN 1 + NORMALIZE_SLASH_match_len(Tail(s))
    ELSE 0

RECURSIVE NORMALIZE_SLASH_replace_all(_, _)
NORMALIZE_SLASH_replace_all(s, rep) ==
    IF s = <<>> THEN <<>>
    ELSE LET n == NORMALIZE_SLASH_match_len(s) IN
         IF n > 0
         THEN Expand(rep, <<SubSeq(s, 1, n), SubSeq(s, 1, n)>>)
                  \o NORMALIZE_SLASH_replace_all(DropFirst(s, n), rep)
         ELSE <<Head(s)>> \o NORMALIZE_SLASH_replace_all(Tail(s), rep)

normalize_slash(arg) ==
    IF NORMALIZE_SLASH_is_match(arg)
    THEN Ok(NORMALIZE_SLASH_replace_all(arg, <<"\\">>))
    ELSE Ok(arg)

(***************************************************************************)
(* State.                                                                  *)
(***************************************************************************)

VARIABLES
    env,        \* the HOME variable of the process environment
    fn,         \* rewrite rules: the function that was called ("none": none yet)
    arg,        \* rewrite rules: the string it was called with
    ret,        \* rewrite rules: what it returned
    envRead,    \* rewrite rules: whether the call read HOME
    INIT,       \* the value inside the INIT mutex
    owner,      \* the holder of the INIT mutex (NoThread: nobody)
    pc,         \* per thread: where its call stands
    call,       \* per thread: the call, <<function, path or src, dst, overwrite>>
    cur,        \* per thread: canonicalize's current string (a, b, c)
    stages,     \* per thread: the rewrite stages the call has run
    flag,       \* per thread: *flag as co_initialize read or wrote it
    native,     \* per thread: the native call issued, <<api, arg 1, arg 2, flags>>
    result,     \* per thread: what the call returns
    nCoInit,    \* CoInitialize calls made so far (saturating at MaxCount)
    nCoInitOk   \* CoInitialize calls that succeeded (saturating at MaxCount)

rvars == <<fn, arg, ret, envRead>>

tvars ==
    <<INIT, owner, pc, call, cur, stages, flag, native, result, nCoInit, nCoInitOk>>

vars == <<env, rvars, tvars>>

Threads == 1..NumThreads

NoThread == 0

\* HOME values: a native home, a POSIX-style home, and one with a dollar.
HomeValues ==
    { NotPresent,
      NotUnicode,
      Home(<<"F", ":", "\\", "f">>),
      Home(<<"/", "f">>),
      Home(<<"f", "$">>) }

NoCall == <<"none", <<>>, <<>>, FALSE>>

NoNative == <<"none", <<>>, <<>>, 0>>

\* No thread is in a call, the flag is false (line 27), the mutex is free.
ThreadsIdle ==
    /\ INIT = FALSE
    /\ owner = NoThread
    /\ pc = [t \in Threads |-> "idle"]
    /\ call = [t \in Threads |-> NoCall]
    /\ cur = [t \in Threads |-> <<>>]
    /\ stages = [t \in Threads |-> <<>>]
    /\ flag = [t \in Threads |-> "none"]
    /\ native = [t \in Threads |-> NoNative]
    /\ result = [t \in Threads |-> Err("none")]
    /\ nCoInit = 0
    /\ nCoInitOk = 0

NoRewriteCall ==
    /\ fn = "none"
    /\ arg = <<>>
    /\ ret = Err("none")
    /\ envRead = FALSE

(***************************************************************************)
(* The rewrite rules, each called once on a string.                        *)
(***************************************************************************)

InitRewrite ==
    /\ env \in HomeValues
    /\ NoRewriteCall
    /\ ThreadsIdle

Called(name, s, r, read) ==
    /\ fn' = name
    /\ arg' = s
    /\ ret' = r
    /\ envRead' = read
    /\ UNCHANGED <<env, tvars>>

CallWinEscapeChar ==
    /\ fn = "none"
    /\ \E s \in Str(MaxLen) :
           Called("win_escape_char", s, win_escape_char(s), FALSE)

CallFixRoot ==
    /\ fn = "none"
    /\ \E s \in Str(MaxLen) : Called("fix_root", s, fix_root(s), FALSE)

CallFixTilde ==
    /\ fn = "none"
    /\ \E s \in Str(MaxLen) :
           Called("fix_tilde", s, fix_tilde(s, env),
                  ROOTED_TILDE_COMPAT_is_match(s))

CallNormalizeSlash ==
    /\ fn = "none"
    /\ \E s \in Str(MaxLen) :
           Called("normalize_slash", s, normalize_slash(s), FALSE)

\* Mutant: fix_tilde is handed path, not a.
root_then_tilde_on_path(path, e) ==
    LET a == fix_root(path) IN
    IF IsErr(a) THEN a ELSE fix_tilde(path, e)

\* The first two stages of canonicalize: let a = fix_root(path)?;
\* let b = fix_tilde(a)?;
root_then_tilde(path, e) ==
    LET a == fix_root(path) IN
    IF IsErr(a) THEN a ELSE fix_tilde(Val(a), e)

CallRootThenTilde ==
    /\ fn = "none"
    /\ \E s \in Str(MaxLen) :
           Called("root_then_tilde", s, root_then_tilde(s, env),
                  ROOTED_TILDE_COMPAT_is_match(Val(fix_root(s))))

NextRewrite ==
    \/ CallWinEscapeChar
    \/ CallFixRoot
    \/ CallFixTilde
    \/ CallNormalizeSlash
    \/ CallRootThenTilde

SpecRewrite == InitRewrite /\ [][NextRewrite]_vars

(***************************************************************************)
(* Threads calling canonicalize and move_file.                             *)
(***************************************************************************)

\* The paths canonicalize is called with: a tilde path, a tilde path with a
\* line feed, a caret escape, a MinGW-rooted path.
CallPaths ==
    { <<"~", "/", "f">>,
      <<"~", LF>>,
      <<"^", "f">>,
      <<"/", "f", "/", "/">> }

\* The arguments move_file is called with: strings the rewrite rules would
\* change.
MoveSrc == { <<"/", "f", "/", "/">> }

MoveDst == { <<"~", "^", "f">> }

\* What the platform may leave in the output buffer: opaque to this code.
NativeOutputs == { <<"F", ":", "\\">> }

Init ==
    /\ env \in {NotPresent, Home(<<"F", ":", "\\", "f">>)}
    /\ NoRewriteCall
    /\ ThreadsIdle

Inc(n) == IF n < MaxCount THEN n + 1 ELSE n

\* The three rewrite stages of canonicalize and the stages that ran:
\* <<result of the last stage run, names of the stages run>>.
canonicalize_rewrite(path, e) ==
    LET a == fix_root(path) IN
    IF IsErr(a) THEN <<a, <<"fix_root">>>>
    ELSE LET b == fix_tilde(Val(a), e) IN
         IF IsErr(b) THEN <<b, <<"fix_root", "fix_tilde">>>>
         ELSE LET c == normalize_slash(Val(b)) IN
              <<c, <<"fix_root", "fix_tilde", "normalize_slash">>>>

\* canonicalize, up to its call of path_cch_canonicalize_ex, which starts
\* with co_initialize.
CallCanonicalize(t) ==
    /\ pc[t] = "idle"
    /\ \E path \in CallPaths :
           LET r == canonicalize_rewrite(path, env) IN
           /\ call' = [call EXCEPT ![t] = <<"canonicalize", path, <<>>, FALSE>>]
           /\ stages' = [stages EXCEPT ![t] = r[2]]
           /\ IF IsErr(r[1])
              THEN /\ result' = [result EXCEPT ![t] = r[1]]
                   /\ pc' = [pc EXCEPT ![t] = "done"]
                   /\ cur' = cur
              ELSE /\ cur' = [cur EXCEPT ![t] = Val(r[1])]
                   /\ pc' = [pc EXCEPT ![t] = "lock"]
                   /\ result' = result
    /\ UNCHANGED <<env, rvars, INIT, owner, flag, native, nCoInit, nCoInitOk>>

\* move_file, up to priv_move_file's call of co_initialize.
CallMoveFile(t) ==
    /\ pc[t] = "idle"
    /\ \E src \in MoveSrc, dst \in MoveDst, overwrite \in BOOLEAN :
           call' = [call EXCEPT ![t] = <<"move_file", src, dst, overwrite>>]
    /\ pc' = [pc EXCEPT ![t] = "lock"]
    /\ UNCHANGED <<env, rvars, INIT, owner, cur, stages, flag, native, result,
                   nCoInit, nCoInitOk>>

\* Mutant: no mutual exclusion, the lock is handed to every caller.
lock_always_free(t) == TRUE

\* INIT.lock() returns once no other thread holds the mutex.  No code
\* panics while holding it, so the mutex is never poisoned.
lock_is_free(t) == owner = NoThread

\* co_initialize: let mut flag = INIT.lock()?;
Lock(t) ==
    /\ pc[t] = "lock"
    /\ lock_is_free(t)
    /\ owner' = t
    /\ pc' = [pc EXCEPT ![t] = "read"]
    /\ UNCHANGED <<env, rvars, INIT, call, cur, stages, flag, native, result,
                   nCoInit, nCoInitOk>>

\* co_initialize: if !*flag; with the flag set it returns Ok(()) and the
\* guard is dropped.
ReadFlag(t) ==
    /\ pc[t] = "read"
    /\ flag' = [flag EXCEPT ![t] = IF INIT THEN "true" ELSE "false"]
    /\ IF INIT
       THEN /\ pc' = [pc EXCEPT ![t] = "native"]
            /\ owner' = NoThread
       ELSE /\ pc' = [pc EXCEPT ![t] = "setup"]
            /\ owner' = owner
    /\ UNCHANGED <<env, rvars, INIT, call, cur, stages, native, result,
                   nCoInit, nCoInitOk>>

\* Mutant: the flag is set before the call that may fail.
flag_set_before_call(old, ok) == TRUE

\* The value inside the mutex after CoInitialize(..)?; *flag = true;
flag_after_setup(old, ok) == IF ok THEN TRUE ELSE old

\* co_initialize: unsafe { CoInitialize(std::ptr::null_mut())? };
\* *flag = true; the platform call succeeds or fails, and either way the
\* guard is dropped on return.
CoInitialize(t) ==
    /\ pc[t] = "setup"
    /\ \E ok \in BOOLEAN :
           /\ INIT' = flag_after_setup(INIT, ok)
           /\ nCoInitOk' = IF ok THEN Inc(nCoInitOk) ELSE nCoInitOk
           /\ IF ok
              THEN /\ flag' = [flag EXCEPT ![t] = "set"]
                   /\ pc' = [pc EXCEPT ![t] = "native"]
                   /\ result' = result
              ELSE /\ flag' = flag
                   /\ pc' = [pc EXCEPT ![t] = "done"]
                   /\ result' = [result EXCEPT ![t] = Err("CoInitialize")]
    /\ nCoInit' = Inc(nCoInit)
    /\ owner' = NoThread
    /\ UNCHANGED <<env, rvars, call, cur, stages, native>>

\* path_cch_canonicalize_ex after co_initialize()?: the platform call on the
\* rewritten string, then the buffer read back as UTF-16.
PathCchCanonicalizeEx(t) ==
    /\ pc[t] = "native"
    /\ call[t][1] = "canonicalize"
    /\ native' = [native EXCEPT ![t] = <<"PathCchCanonicalizeEx", cur[t], <<>>, 1>>]
    /\ \E r \in {Err("PathCchCanonicalizeEx"), Err("FromUtf16Error")}
                  \cup {Ok(s) : s \in NativeOutputs} :
           result' = [result EXCEPT ![t] = r]
    /\ pc' = [pc EXCEPT ![t] = "done"]
    /\ UNCHANGED <<env, rvars, INIT, owner, call, cur, stages, flag,
                   nCoInit, nCoInitOk>>

\* Mutant: the copy-fallback flag is left out.
move_file_flags_overwrite_only(overwrite_okay) ==
    IF overwrite_okay THEN 1 ELSE 0

\* priv_move_file: let mut flags = 0u32; ... flags += 2u32; the sum is at
\* most 3, far from the width of a u32.
move_file_flags(overwrite_okay) ==
    LET f0 == 0
        f1 == IF overwrite_okay THEN f0 + 1 ELSE f0
        f2 == f1 + 0
        f3 == f2 + 2
    IN  f3

\* priv_move_file after co_initialize()?: MoveFileExW(src, dst, flags).ok()?
MoveFileExW(t) ==
    /\ pc[t] = "native"
    /\ call[t][1] = "move_file"
    /\ native' = [native EXCEPT ![t] =
           <<"MoveFileExW", call[t][2], call[t][3], move_file_flags(call[t][4])>>]
    /\ \E r \in {Ok(<<>>), Err("MoveFileExW")} :
           result' = [result EXCEPT ![t] = r]
    /\ pc' = [pc EXCEPT ![t] = "done"]
    /\ UNCHANGED <<env, rvars, INIT, owner, call, cur, stages, flag,
                   nCoInit, nCoInitOk>>

\* The call returns to its caller; the thread may call again.
Return(t) ==
    /\ pc[t] = "done"
    /\ pc' = [pc EXCEPT ![t] = "idle"]
    /\ call' = [call EXCEPT ![t] = NoCall]
    /\ cur' = [cur EXCEPT ![t] = <<>>]
    /\ stages' = [stages EXCEPT ![t] = <<>>]
    /\ flag' = [flag EXCEPT ![t] = "none"]
    /\ native' = [native EXCEPT ![t] = NoNative]
    /\ result' = [result EXCEPT ![t] = Err("none")]
    /\ UNCHANGED <<env, rvars, INIT, owner, nCoInit, nCoInitOk>>

Next ==
    \E t \in Threads :
        \/ CallCanonicalize(t)
        \/ CallMoveFile(t)
        \/ Lock(t)
        \/ ReadFlag(t)
        \/ CoInitialize(t)
        \/ PathCchCanonicalizeEx(t)
        \/ MoveFileExW(t)
        \/ Return(t)

Spec == Init /\ [][Next]_vars

(***************************************************************************)
(* Properties of the rewrite rules (specification SpecRewrite).            *)
(***************************************************************************)

\* The characters of s at the positions K, in order.
Pick(s, K) ==
    LET Nth(j) == CHOOSE i \in K : Cardinality({k \in K : k <= i}) = j
    IN  [j \in 1..Cardinality(K) |-> s[Nth(j)]]

\* s with every maximal run of slashes replaced by one backslash, position
\* by position: a slash that follows a slash is dropped, any other slash
\* becomes a backslash, every other character stays.
SlashRunsCollapsed(s) ==
    LET t == [i \in 1..Len(s) |-> IF IsSlash(s[i]) THEN "\\" ELSE s[i]]
    IN  Pick(t, {i \in 1..Len(s) :
                    ~(IsSlash(s[i]) /\ i > 1 /\ IsSlash(s[i - 1]))})

\* C6: slash normalization replaces each maximal run of slashes (leading,
\* internal or trailing, of either style) by exactly one backslash and keeps
\* every other character in order; the output holds no forward slash and no
\* two adjacent backslashes, and normalizing it again changes nothing.
C6_NormalizeSlash ==
    fn = "normalize_slash" =>
        /\ IsOk(ret)
        /\ Val(ret) = SlashRunsCollapsed(arg)
        /\ \A i \in 1..Len(Val(ret)) : Val(ret)[i] # "/"
        /\ \A i \in 1..(Len(Val(ret)) - 1) :
               ~(Val(ret)[i] = "\\" /\ Val(ret)[i + 1] = "\\")
        /\ normalize_slash(Val(ret)) = ret

C6_Witness ==
    /\ fn = "normalize_slash"
    /\ arg = <<"/", "\\", "f", "/">>
    /\ ret = Ok(<<"\\", "f", "\\">>)

\* Whether the caret at position i of s starts an escape sequence, scanning
\* left to right without overlap; lineFeed says whether a caret escapes a
\* line feed as it does any other character.
RECURSIVE StartsEscape(_, _, _)
StartsEscape(s, i, lineFeed) ==
    /\ s[i] = "^"
    /\ i < Len(s)
    /\ (lineFeed \/ s[i + 1] # LF)
    /\ (i = 1 \/ ~StartsEscape(s, i - 1, lineFeed))

\* s without the carets that start an escape sequence.
Unescaped(s, lineFeed) ==
    Pick(s, {i \in 1..Len(s) : ~StartsEscape(s, i, lineFeed)})

\* C9 as stated: a caret followed by any single character is replaced by
\* that character.
C9_AnyCharacter ==
    fn = "win_escape_char" => ret = Ok(Unescaped(arg, TRUE))

\* C9 amended: caret-escape removal replaces every caret immediately followed
\* by a character other than the line feed with that character, left to right
\* without overlap; a caret followed by a line feed, like a caret at the very
\* end, is left in place; a string with no such sequence is returned unchanged.
C9_WinEscapeChar ==
    fn = "win_escape_char" =>
        /\ ret = Ok(Unescaped(arg, FALSE))
        /\ (arg # <<>> /\ arg[Len(arg)] = "^" =>
                Val(ret) # <<>> /\ Val(ret)[Len(Val(ret))] = "^")
        /\ ((\A i \in 1..(Len(arg) - 1) : ~(arg[i] = "^" /\ arg[i + 1] # LF))
                => ret = Ok(arg))

C9_Witness ==
    /\ fn = "win_escape_char"
    /\ arg = <<"^", "^", "^", "\\">>
    /\ ret = Ok(<<"^", "\\">>)

\* The form /<single letter>/<rest>, anchored at the start.
HasRootForm(s) ==
    Len(s) >= 3 /\ s[1] = "/" /\ s[2] \in {"f", "F"} /\ s[3] = "/"

HasLineFeed(s) == \E i \in 1..Len(s) : s[i] = LF

\* C8 as stated: every /<letter>/<rest> becomes <LETTER>:\<rest>, whatever
\* <rest> contains, and every other string is returned unchanged.
C8_AnyRest ==
    fn = "fix_root" =>
        IF HasRootForm(arg)
        THEN ret = Ok(<<"F", ":", "\\">> \o DropFirst(arg, 3))
        ELSE ret = Ok(arg)

\* C8 amended: the root-drive fix maps /<single letter>/<rest>, with no line
\* feed in <rest>, to <LETTER>:\<rest>, the letter upper-cased and <rest>
\* copied verbatim (no slash of it changed or collapsed); every other string,
\* a /<letter>/<rest> with a line feed in <rest> included, is returned
\* unchanged.
C8_FixRoot ==
    fn = "fix_root" =>
        IF HasRootForm(arg) /\ ~HasLineFeed(arg)
        THEN /\ IsOk(ret)
             /\ Len(Val(ret)) = Len(arg)
             /\ SubSeq(Val(ret), 1, 3) = <<"F", ":", "\\">>
             /\ \A i \in 4..Len(arg) : Val(ret)[i] = arg[i]
        ELSE ret = Ok(arg)

C8_Witness ==
    /\ fn = "fix_root"
    /\ arg = <<"/", "f", "/", "/">>
    /\ ret = Ok(<<"F", ":", "\\", "/">>)

\* C7 as stated: an input beginning with `~` becomes the HOME value verbatim
\* followed by the rest of the input, whatever HOME is set to; any other
\* input is returned unchanged without reading HOME.
C7_HomeVerbatim ==
    fn = "fix_tilde" /\ env[1] = "set" =>
        IF arg # <<>> /\ arg[1] = "~"
        THEN ret = Ok(env[2] \o Tail(arg))
        ELSE ret = Ok(arg) /\ ~envRead

\* The other order of the two stages: tilde expansion, then root-drive fix.
tilde_then_root(path, e) ==
    LET b == fix_tilde(path, e) IN
    IF IsErr(b) THEN b ELSE fix_root(Val(b))

\* C10 as stated: root-drive fix then tilde expansion gives what tilde
\* expansion then root-drive fix gives.
C10_OrderIrrelevant ==
    fn = "root_then_tilde" => ret = tilde_then_root(arg, env)

\* C10 amended: the two orders give the same result (the same string or the
\* same error) except when the tilde was expanded and the expansion itself
\* has the form /<letter>/<rest>; there they differ: root-drive fix first
\* leaves the expansion as it is, tilde expansion first rewrites it.
C10_OrderUnlessExpansionRooted ==
    fn = "root_then_tilde" =>
        ((ret = tilde_then_root(arg, env))
            <=> ~(envRead /\ IsOk(ret) /\ HasRootForm(Val(ret))
                     /\ ~HasLineFeed(Val(ret))))

C10_Witness ==
    /\ fn = "root_then_tilde"
    /\ arg = <<"~", "/", "f">>
    /\ env = Home(<<"F", ":", "\\", "f">>)
    /\ ret = Ok(<<"F", ":", "\\", "f", "/", "f">>)

(***************************************************************************)
(* Properties of canonicalize, move_file and the one-time initialization   *)
(* (specification Spec).                                                   *)
(***************************************************************************)

\* The pipeline as C1 states it, caret-escape removal first.
caret_root_tilde_slash(path, e) ==
    LET w == win_escape_char(path) IN
    IF IsErr(w) THEN w
    ELSE LET a == fix_root(Val(w)) IN
         IF IsErr(a) THEN a
         ELSE LET b == fix_tilde(Val(a), e) IN
              IF IsErr(b) THEN b ELSE normalize_slash(Val(b))

\* C1: the string handed to the native canonicalize call is
\* normalize_slash(fix_tilde(fix_root(win_escape_char(path)))).
C1_CaretStageFirst ==
    \A t \in Threads :
        native[t][1] = "PathCchCanonicalizeEx" =>
            Ok(native[t][2]) = caret_root_tilde_slash(call[t][2], env)

\* A canonicalize call on a path that begins with `~`, HOME being unset.
TildeCallWithoutHome(t) ==
    /\ call[t][1] = "canonicalize"
    /\ call[t][2][1] = "~"
    /\ env = NotPresent

\* The call ended in tilde expansion: it returns the missing-variable error,
\* slash normalization did not run, no native call was issued, and the call
\* never took the lock, read the flag or wrote it.
AbortedAtTilde(t) ==
    /\ pc[t] = "done"
    /\ result[t] = Err("NotPresent")
    /\ stages[t] = <<"fix_root", "fix_tilde">>
    /\ native[t] = NoNative
    /\ flag[t] = "none"
    /\ owner # t

\* C2 as stated: every canonicalize call on a path beginning with `~` with
\* HOME unset is aborted at tilde expansion.
C2_EveryTildePath ==
    \A t \in Threads : TildeCallWithoutHome(t) => AbortedAtTilde(t)

\* C2 amended: when canonicalize is called with a path that begins with `~`
\* and holds no line feed while HOME is unset, it returns the
\* missing-environment-variable error of tilde expansion and the remaining
\* stages are aborted: no slash normalization, no native canonicalize call,
\* no platform initialization, the flag untouched.  (A path with a line feed
\* after the `~` is not expanded and goes on to the native call.)
C2_TildeWithoutHome ==
    \A t \in Threads :
        TildeCallWithoutHome(t) /\ ~HasLineFeed(call[t][2]) => AbortedAtTilde(t)

\* The aborted call, while another thread has initialized the platform.
C2_Witness ==
    \E t \in Threads :
        /\ TildeCallWithoutHome(t)
        /\ call[t][2] = <<"~", "/", "f">>
        /\ AbortedAtTilde(t)
        /\ INIT

\* C3 as stated: CoInitialize executes at most once per process lifetime.
C3_AtMostOneCall == nCoInit <= 1

InCoInitialize(t) == pc[t] \in {"read", "setup"}

\* C3 amended: under any interleaving at most one thread at a time is inside
\* the check-and-set sequence, and it holds the lock; CoInitialize is called
\* only by a thread that read the flag as false while the flag still is
\* false; the call succeeds at most once per process lifetime, and the flag
\* is true exactly when it has succeeded.  (A call that fails leaves the flag
\* false, so the call can execute more than once.)
C3_OneSuccessfulCall ==
    /\ Cardinality({t \in Threads : InCoInitialize(t)}) <= 1
    /\ \A t \in Threads : InCoInitialize(t) => owner = t
    /\ \A t \in Threads : pc[t] = "setup" => flag[t] = "false" /\ ~INIT
    /\ nCoInitOk <= 1
    /\ INIT <=> nCoInitOk = 1

\* Two first callers: one performed the setup, the other took the lock after
\* it and read the flag as true; CoInitialize ran once.
C3_Witness ==
    \E t, u \in Threads :
        /\ t # u
        /\ flag[t] = "set"
        /\ flag[u] = "true"
        /\ nCoInit = 1

\* A native call is about to be issued or has been issued by thread t.
AtNativeCall(t) == pc[t] = "native" \/ native[t] # NoNative

C4_NativeOnlyWhenInitialized ==
    \A t \in Threads :
        /\ AtNativeCall(t) => INIT /\ flag[t] \in {"true", "set"}
        /\ result[t] = Err("CoInitialize") => pc[t] = "done" /\ native[t] = NoNative

C4_Step ==
    /\ INIT => INIT'
    /\ \A t \in Threads :
           /\ pc[t] = "setup" /\ pc'[t] = "done" =>
                  /\ ~INIT'
                  /\ result'[t] = Err("CoInitialize")
                  /\ native'[t] = NoNative
           /\ pc[t] = "read" /\ ~INIT /\ pc'[t] # "read" => pc'[t] = "setup"

\* C4: a native canonicalize or move call is issued only by an operation that
\* has seen the flag true (read it true, or set it after a successful setup);
\* the flag never goes from true to false; a failed setup leaves the flag
\* false and ends the operation with that failure and no native call; and a
\* call that then reads the flag as false attempts the setup again.
C4_InitializedBeforeNative ==
    [](C4_NativeOnlyWhenInitialized) /\ [][C4_Step]_vars

\* A setup failed, a later call attempted it again and succeeded, and a
\* native call was issued.
C4_Witness ==
    /\ nCoInit >= 2
    /\ nCoInitOk = 1
    /\ \E t \in Threads : native[t] # NoNative

\* C5: the native move call receives src and dst exactly as given, with the
\* copy-fallback flag (2) always set and the replace-existing flag (1) set
\* exactly when overwrite is true: flags 3 with overwrite, 2 without; and it
\* is issued only after platform initialization succeeded.
C5_MoveFile ==
    \A t \in Threads :
        native[t][1] = "MoveFileExW" =>
            /\ call[t][1] = "move_file"
            /\ native[t][2] = call[t][2]
            /\ native[t][3] = call[t][3]
            /\ native[t][4] = (IF call[t][4] THEN 3 ELSE 2)
            /\ (native[t][4] \div 2) % 2 = 1
            /\ (native[t][4] % 2 = 1) <=> call[t][4]
            /\ INIT

C5_Witness ==
    \E t, u \in Threads :
        /\ native[t] = <<"MoveFileExW", <<"/", "f", "/", "/">>, <<"~", "^", "f">>, 3>>
        /\ call[t][4]
        /\ native[u][1] = "MoveFileExW"
        /\ native[u][4] = 2

====
